---- MODULE Spec2Model ----
(***************************************************************************)
(* Model of the report generation and delivery pipeline of                 *)
(* routers/ppt_email.py: _parse_summary, create_pptx_buffer,               *)
(* get_bearer_token, send_email and the generate_and_send handler.         *)
(*                                                                         *)
(* Text is a sequence of one-character strings, so that the regular        *)
(* expressions and str.strip calls of the source are computed character    *)
(* by character.                                                           *)
(***************************************************************************)
EXTENDS Integers, Sequences, FiniteSets, TLC

(***************************************************************************)
(* Bounds of the model.                                                    *)
(***************************************************************************)
\* longest summary, counted in words joined by one separator each
MaxWords == 4
\* most data rows of a request
MaxRows == 2

(***************************************************************************)
(* Text helpers: Python's str.strip, str.split and the re calls of         *)
(* _parse_summary.                                                         *)
(***************************************************************************)
\* the characters str.strip() and the regex class \s treat as whitespace
Whitespace == {" ", "\t", "\n", "\r", "\f"}

Digits == {"0", "1", "2", "3", "4", "5", "6", "7", "8", "9"}

IsSpace(c) == c \in Whitespace

\* s[i..] (1-based); empty when i is past the end
Drop(s, i) == SubSeq(s, i, Len(s))

\* number of leading characters of s that belong to cs
RECURSIVE LeadRun(_, _)
LeadRun(s, cs) ==
    IF s = <<>> \/ Head(s) \notin cs THEN 0 ELSE 1 + LeadRun(Tail(s), cs)

\* number of trailing characters of s that belong to cs
RECURSIVE TrailRun(_, _)
TrailRun(s, cs) ==
    IF s = <<>> \/ s[Len(s)] \notin cs THEN 0
    ELSE 1 + TrailRun(SubSeq(s, 1, Len(s) - 1), cs)

\* str.strip(chars): drop the leading and the trailing characters in cs
StripChars(s, cs) ==
    LET a == LeadRun(s, cs)
        t == Drop(s, a + 1)
    IN  SubSeq(t, 1, Len(t) - TrailRun(t, cs))

\* str.strip()
Strip(s) == StripChars(s, Whitespace)

\* str.split(sep) for a one-character separator: Len = occurrences + 1
RECURSIVE SplitOn(_, _, _)
SplitOn(s, sep, cur) ==
    IF s = <<>> THEN <<cur>>
    ELSE IF Head(s) = sep THEN <<cur>> \o SplitOn(Tail(s), sep, <<>>)
    ELSE SplitOn(Tail(s), sep, Append(cur, Head(s)))

\* re.sub(r"[ \t]+", " ", s): every maximal run of blanks becomes one space
RECURSIVE CollapseBlanks(_)
CollapseBlanks(s) ==
    IF s = <<>> THEN <<>>
    ELSE IF Head(s) \in {" ", "\t"}
         THEN <<" ">> \o CollapseBlanks(Drop(s, LeadRun(s, {" ", "\t"}) + 1))
         ELSE <<Head(s)>> \o CollapseBlanks(Tail(s))

\* position of the last "\n" among the first n characters of s, 0 if none
RECURSIVE LastNewline(_, _)
LastNewline(s, n) ==
    IF n = 0 THEN 0
    ELSE IF s[n] = "\n" THEN n ELSE LastNewline(s, n - 1)

\* re.sub(r"\n\s*\n+", "\n", s): from a line break, the greedy \s* runs to the
\* end of the whitespace run and backtracks to its last line break; the match
\* is replaced by one line break and the scan resumes after it
RECURSIVE CollapseBlankLines(_)
CollapseBlankLines(s) ==
    IF s = <<>> THEN <<>>
    ELSE IF Head(s) = "\n"
         THEN LET run == LeadRun(s, Whitespace)
                  k   == LastNewline(s, run)
              IN  IF k > 1 THEN <<"\n">> \o CollapseBlankLines(Drop(s, k + 1))
                  ELSE <<"\n">> \o CollapseBlankLines(Tail(s))
         ELSE <<Head(s)>> \o CollapseBlankLines(Tail(s))

\* \d+\.\s matches at position p of s: a maximal run of digits, a dot, a
\* whitespace character
MarkerAt(s, p) ==
    LET d == LeadRun(Drop(s, p), Digits)
    IN  /\ p >= 1
        /\ d >= 1
        /\ p + d + 1 <= Len(s)
        /\ s[p + d] = "."
        /\ IsSpace(s[p + d + 1])

\* re.findall(r"(?:^|\s)(\d+)\.\s", s) is non-empty
HasNumbered(s) ==
    \E p \in 1..Len(s) :
        /\ p = 1 \/ IsSpace(s[p - 1])
        /\ MarkerAt(s, p)

\* re.split(r"(?:^|\s)(?=\d+\.\s)", s): the empty match at the start of the
\* text leaves an empty first part; elsewhere the whitespace character in
\* front of a marker is consumed and the text is cut there
RECURSIVE SplitMarkers(_, _, _)
SplitMarkers(s, p, cur) ==
    IF p > Len(s) THEN <<cur>>
    ELSE IF p = 1 /\ MarkerAt(s, 1)
         THEN <<cur>> \o SplitMarkers(s, 2, <<s[1]>>)
    ELSE IF IsSpace(s[p]) /\ MarkerAt(s, p + 1)
         THEN <<cur>> \o SplitMarkers(s, p + 1, <<>>)
    ELSE SplitMarkers(s, p + 1, Append(cur, s[p]))

\* re.sub(r"^\d+\.\s*", "", s): a leading run of digits and a dot are removed
\* together with the whitespace that follows, if any
StripMarker(s) ==
    LET d == LeadRun(s, Digits)
    IN  IF d >= 1 /\ d + 1 <= Len(s) /\ s[d + 1] = "."
        THEN LET rest == Drop(s, d + 2)
             IN  Drop(rest, LeadRun(rest, Whitespace) + 1)
        ELSE s

\* re.split(r"(?<=[.!?])\s+", s): a whitespace run that directly follows
\* sentence-terminal punctuation is removed and the text is cut there
RECURSIVE SplitSentences(_, _, _)
SplitSentences(s, p, cur) ==
    IF p > Len(s) THEN <<cur>>
    ELSE IF p > 1 /\ s[p - 1] \in {".", "!", "?"} /\ IsSpace(s[p])
         THEN <<cur>> \o
              SplitSentences(s, p + LeadRun(Drop(s, p), Whitespace), <<>>)
    ELSE SplitSentences(s, p + 1, Append(cur, s[p]))

\* the sentinel bullet "No summary provided"
Sentinel == <<"N", "o", " ", "s", "u", "m", "m", "a", "r", "y", " ",
              "p", "r", "o", "v", "i", "d", "e", "d">>

\* the characters of the literal passed to b.strip(...) in the line branch: a
\* dash, the three characters U+00E2 U+20AC U+00A2 (written by code point,
\* one element each) and a space; the bullet U+2022 is not among them
GlyphChars == {"-", "U+00E2", "U+20AC", "U+00A2", " "}

\* bullets of the numbered branch: each part is stripped, skipped when empty,
\* relieved of its marker, stripped again and kept when non-empty
RECURSIVE NumberedBullets(_)
NumberedBullets(parts) ==
    IF parts = <<>> THEN <<>>
    ELSE LET part == Strip(Head(parts))
             body == Strip(StripMarker(part))
         IN  IF part = <<>> \/ body = <<>>
             THEN NumberedBullets(Tail(parts))
             ELSE <<body>> \o NumberedBullets(Tail(parts))

\* bullets of the line branch: one per line whose strip() is non-empty
RECURSIVE LineBullets(_)
LineBullets(lines) ==
    IF lines = <<>> THEN <<>>
    ELSE IF Strip(Head(lines)) = <<>> THEN LineBullets(Tail(lines))
    ELSE <<Strip(StripChars(Head(lines), GlyphChars))>> \o
         LineBullets(Tail(lines))

\* bullets of the sentence branch
RECURSIVE SentenceBullets(_)
SentenceBullets(sentences) ==
    IF sentences = <<>> THEN <<>>
    ELSE IF Strip(Head(sentences)) = <<>>
         THEN SentenceBullets(Tail(sentences))
    ELSE <<Strip(Head(sentences))>> \o SentenceBullets(Tail(sentences))

\* the summary after trimming and whitespace collapsing
CleanSummary(summary) ==
    Strip(CollapseBlankLines(CollapseBlanks(Strip(summary))))

\* None stands for Python's None, which (summary or "") turns into ""
None == <<"None">>

OrEmpty(summary) == IF summary = None THEN <<>> ELSE summary

parse_summary(summary) ==
    LET first == Strip(OrEmpty(summary))
        clean == CleanSummary(OrEmpty(summary))
        bullets ==
            IF HasNumbered(clean)
            THEN NumberedBullets(SplitMarkers(clean, 1, <<>>))
            ELSE IF \E i \in 1..Len(clean) : clean[i] = "\n"
                 THEN LineBullets(SplitOn(clean, "\n", <<>>))
                 ELSE SentenceBullets(SplitSentences(clean, 1, <<>>))
    IN  IF first = <<>> THEN <<Sentinel>>
        ELSE IF bullets = <<>> THEN <<Sentinel>> ELSE bullets


(***************************************************************************)
(* Request data: a row is a dict, kept as the sequence of its items in     *)
(* insertion order; a value is a string or an integer (JSON).              *)
(***************************************************************************)
StrVal(s) == [kind |-> "str", text |-> s, num |-> 0]

IntVal(n) == [kind |-> "int", text |-> <<>>, num |-> n]

DigitChar(d) == <<"0", "1", "2", "3", "4", "5", "6", "7", "8", "9">>[d + 1]

RECURSIVE NatToText(_)
NatToText(n) ==
    IF n < 10 THEN <<DigitChar(n)>>
    ELSE NatToText(n \div 10) \o <<DigitChar(n % 10)>>

\* str(value)
str(v) ==
    IF v.kind = "str" THEN v.text
    ELSE IF v.num < 0 THEN <<"-">> \o NatToText(0 - v.num)
    ELSE NatToText(v.num)

\* list(row.keys())
DictKeys(row) == [i \in 1..Len(row) |-> row[i].key]

\* row.get(key, "")
DictGet(row, key) ==
    IF \E i \in 1..Len(row) : row[i].key = key
    THEN (CHOOSE it \in {row[i] : i \in 1..Len(row)} : it.key = key).value
    ELSE StrVal(<<>>)

Values ==
    { IntVal(-7),
      StrVal(<<"N", "-", "A">>),
      StrVal(<<" ", "-", "5">>) }

\* the key sequences a row can have: none, one, or two in an order that is
\* not the alphabetical one
KeyOrders == { <<>>, <<"Market">>, <<"YTD">>, <<"YTD", "Market">> }

Rows ==
    UNION { { [i \in 1..Len(ks) |-> [key |-> ks[i], value |-> f[i]]] :
                f \in [1..Len(ks) -> Values] } : ks \in KeyOrders }

DataLists == UNION { [1..n -> Rows] : n \in 0..MaxRows }

BusinessNames == {"Acme"}

RequestSummaries == { <<"1", ".", " ", "a", "\n", "2", ".", " ", "b">> }

(***************************************************************************)
(* create_pptx_buffer: the presentation is the sequence of its slides.     *)
(***************************************************************************)
\* Inches(8), in EMU
TableWidth == 7315200

\* RGBColor(0, 51, 102), the fill of the header cells
HeaderFill == "003366"

\* RGBColor(242, 242, 242), the fill of the alternate rows
AlternateFill == "F2F2F2"

NoTable ==
    [header |-> <<>>, header_fill |-> <<>>, cells |-> <<>>, col_width |-> 0]

TitleSlide(business_name) ==
    [kind |-> "title", background |-> "template",
     heading |-> <<business_name, " - Analysis">>,
     paragraphs |-> <<>>, table |-> NoTable]

SummarySlide(summary) ==
    [kind |-> "summary", background |-> "white",
     heading |-> <<"SUMMARY">>,
     paragraphs |-> parse_summary(summary), table |-> NoTable]

\* a dash anywhere in the text
IsNegative_AnyDash(cell_value) ==
    \E i \in 1..Len(cell_value) : cell_value[i] = "-"

\* the test of the cell text that turns the font red
IsNegative(cell_value) ==
    LET t == Strip(cell_value) IN t # <<>> /\ Head(t) = "-"

\* the odd rows instead of the even ones
IsAlternate_Odd(row_idx) == row_idx % 2 = 1

\* the test of the row index that gives the row its light fill
IsAlternate(row_idx) == row_idx % 2 = 0

\* the keys of the last row instead of the first
TableKeys_LastRow(data) == DictKeys(data[Len(data)])

\* keys = list(data[0].keys())
TableKeys(data) == DictKeys(data[1])

\* one body cell: its text, font colour and fill
DataCell(row_data, key, row_idx) ==
    LET cell_value == str(DictGet(row_data, key))
    IN  [text |-> cell_value,
         red |-> IsNegative(cell_value),
         filled |-> IsAlternate(row_idx)]

\* the table of the data slide; num_cols > 0 here
DataTable(data) ==
    LET keys == TableKeys(data)
        num_cols == Len(keys)
    IN  [header |-> keys,
         header_fill |-> [c \in 1..num_cols |-> HeaderFill],
         cells |-> [r \in 1..Len(data) |->
                      [c \in 1..num_cols |-> DataCell(data[r], keys[c], r)]],
         col_width |-> TableWidth \div num_cols]

TableSlide(data) ==
    [kind |-> "table", background |-> "white",
     heading |-> <<"DATA">>,
     paragraphs |-> <<>>, table |-> DataTable(data)]

ClosingSlide ==
    [kind |-> "closing", background |-> "template",
     heading |-> <<"THANK YOU">>,
     paragraphs |-> <<>>, table |-> NoTable]

\* table_width / num_cols raises ZeroDivisionError when row 0 has no keys
TableRaises(data) == data # <<>> /\ Len(TableKeys(data)) = 0

\* the data slide only from the second row on
DeckSlides_SkipSingleRow(business_name, summary, data) ==
    <<TitleSlide(business_name), SummarySlide(summary)>>
    \o (IF Len(data) > 1 THEN <<TableSlide(data)>> ELSE <<>>)
    \o <<ClosingSlide>>

\* the slides the function adds, in the order it adds them
DeckSlides(business_name, summary, data) ==
    <<TitleSlide(business_name), SummarySlide(summary)>>
    \o (IF data # <<>> THEN <<TableSlide(data)>> ELSE <<>>)
    \o <<ClosingSlide>>

\* the outcome of a call: an exception, or the saved presentation
create_pptx_buffer(business_name, summary, data) ==
    IF TableRaises(data)
    THEN [raised |-> TRUE, error |-> "ZeroDivisionError", slides |-> <<>>]
    ELSE [raised |-> FALSE, error |-> "",
          slides |-> DeckSlides(business_name, summary, data)]


(***************************************************************************)
(* The two HTTP collaborators: what requests.post can hand back.           *)
(***************************************************************************)
NotCalled == [kind |-> "not_called", status_code |-> 0, body |-> ""]

\* requests.exceptions.RequestException: timeout, connection error
NetworkError == [kind |-> "network_error", status_code |-> 0, body |-> ""]

HttpResponse(status, body) ==
    [kind |-> "response", status_code |-> status, body |-> body]

\* Response.raise_for_status(): HTTPError for the 4xx and 5xx statuses only
raise_for_status(status_code) == status_code >= 400 /\ status_code < 600

IdentityStatuses == {200, 304, 401}

\* the identity endpoint's body: JSON with a non-empty access_token, JSON
\* without one, or no JSON at all
IdentityBodies == {"access_token", "no_access_token", "not_json"}

IdentityOutcomes ==
    {NetworkError} \cup
    {HttpResponse(st, b) : st \in IdentityStatuses, b \in IdentityBodies}

GatewayStatuses == {200, 304, 401, 500}

GatewayBodies == {"quota exceeded", "accepted"}

GatewayOutcomes ==
    {NetworkError} \cup
    {HttpResponse(st, b) : st \in GatewayStatuses, b \in GatewayBodies}

Raised(error) == [raised |-> TRUE, error |-> error, token |-> ""]

\* get_bearer_token, given the configured secret and the endpoint's answer
get_bearer_token(client_secret, outcome) ==
    IF client_secret = "" THEN Raised("RuntimeError: CLIENT_SECRET not set")
    ELSE IF outcome.kind = "network_error" THEN Raised("RequestException")
    ELSE IF raise_for_status(outcome.status_code) THEN Raised("HTTPError")
    ELSE IF outcome.body = "not_json" THEN Raised("JSONDecodeError")
    ELSE IF outcome.body = "no_access_token"
         THEN Raised("RuntimeError: No access_token in response")
    ELSE [raised |-> FALSE, error |-> "", token |-> "bearer"]

(***************************************************************************)
(* What generate_and_send hands to the caller.                             *)
(***************************************************************************)
NoResponse ==
    [kind |-> "none", status_code |-> 0, success |-> FALSE, detail |-> <<>>,
     email_status_code |-> 0, handler |-> "none"]

\* raise HTTPException(status_code=..., detail=...); handler names the except
\* clause that raised it
HTTPException(status_code, detail, handler) ==
    [kind |-> "HTTPException", status_code |-> status_code,
     success |-> FALSE, detail |-> detail, email_status_code |-> 0,
     handler |-> handler]

\* return APIResponse(success=True, ...)
APIResponse(email_status_code) ==
    [kind |-> "APIResponse", status_code |-> 200, success |-> TRUE,
     detail |-> <<"PPTX generated and email sent successfully">>,
     email_status_code |-> email_status_code, handler |-> "return"]

\* status of an authentication failure
AuthStatus == 401

\* status of an email failure that is no HTTPError, and of any other failure
ErrorStatus == 500

\* except Exception around get_bearer_token
AuthFailure(error) ==
    HTTPException(AuthStatus, <<"Authentication failed: ", error>>, "auth")

\* except requests.exceptions.HTTPError around send_email
EmailServiceError(resp) ==
    HTTPException(resp.status_code, <<"Email service error: ", resp.body>>,
                  "email_service")

\* except Exception around send_email
EmailSendingFailed(error) ==
    HTTPException(ErrorStatus, <<"Email sending failed: ", error>>,
                  "email_sending")

\* the outermost except Exception
UnexpectedError(error) ==
    HTTPException(ErrorStatus, <<error>>, "unexpected")

\* going on to send_email whatever get_bearer_token did
AfterAuth_Continue(raised) == "send"

\* where the handler goes after get_bearer_token
AfterAuth(raised) == IF raised THEN "done" ELSE "send"

\* where the handler goes after create_pptx_buffer
AfterBuild(raised) == IF raised THEN "done" ELSE "auth"

\* the outcome of steps 3 and 4 for one answer of the gateway
EmailResult(outcome) ==
    IF outcome.kind = "network_error" THEN EmailSendingFailed("RequestException")
    ELSE IF raise_for_status(outcome.status_code) THEN EmailServiceError(outcome)
    ELSE APIResponse(outcome.status_code)

(***************************************************************************)
(* State.                                                                  *)
(***************************************************************************)
VARIABLES
    pc,             \* position in generate_and_send
    request,        \* the PPTEmailRequest
    CLIENT_SECRET,  \* the configured secret, "" when unset
    pptx_buffer,    \* the presentation built in step 1
    bearer_token,   \* the token of step 2, "" before
    idResp,         \* what the identity endpoint answered in this run
    gwResp,         \* what the email gateway answered in this run
    calls,          \* the calls made so far in this run, in order
    response,       \* what the caller receives
    summary,        \* argument of a direct _parse_summary call
    bullets,        \* its result
    parsed          \* whether that call has returned

vars == <<pc, request, CLIENT_SECRET, pptx_buffer, bearer_token, idResp, gwResp,
          calls, response, summary, bullets, parsed>>

parseVars == <<summary, bullets, parsed>>

runVars == <<pc, request, CLIENT_SECRET, pptx_buffer, bearer_token, idResp,
             gwResp, calls, response>>

NoBuffer == [built |-> FALSE, slides |-> <<>>]

Requests ==
    [business_name : BusinessNames, summary : RequestSummaries, data : DataLists]

Init ==
    /\ pc = "start"
    /\ request \in Requests
    /\ CLIENT_SECRET \in {"", "secret"}
    /\ pptx_buffer = NoBuffer
    /\ bearer_token = ""
    /\ idResp = NotCalled
    /\ gwResp = NotCalled
    /\ calls = <<>>
    /\ response = NoResponse
    /\ summary = None
    /\ bullets = <<>>
    /\ parsed = FALSE

\* Step 1: create_pptx_buffer
GeneratePptx ==
    /\ pc = "start"
    /\ LET r == create_pptx_buffer(request.business_name, request.summary,
                                   request.data)
       IN  /\ pc' = AfterBuild(r.raised)
           /\ pptx_buffer' = IF r.raised THEN NoBuffer
                             ELSE [built |-> TRUE, slides |-> r.slides]
           /\ response' = IF r.raised THEN UnexpectedError(r.error)
                          ELSE response
    /\ calls' = Append(calls, "create_pptx_buffer")
    /\ UNCHANGED <<request, CLIENT_SECRET, bearer_token, idResp, gwResp>>
    /\ UNCHANGED parseVars

\* Step 2: get_bearer_token
Authenticate ==
    /\ pc = "auth"
    /\ \E outcome \in IdentityOutcomes :
          LET called == CLIENT_SECRET # ""
              r == get_bearer_token(CLIENT_SECRET, outcome)
          IN  /\ idResp' = IF called THEN outcome ELSE NotCalled
              /\ calls' = IF called THEN Append(calls, "POST TOKEN_URL")
                          ELSE calls
              /\ bearer_token' = r.token
              /\ pc' = AfterAuth(r.raised)
              /\ response' = IF r.raised THEN AuthFailure(r.error)
                             ELSE response
    /\ UNCHANGED <<request, CLIENT_SECRET, pptx_buffer, gwResp>>
    /\ UNCHANGED parseVars

\* Steps 3 and 4: send_email and the reply
SendEmail ==
    /\ pc = "send"
    /\ \E outcome \in GatewayOutcomes :
          /\ gwResp' = outcome
          /\ response' = EmailResult(outcome)
    /\ calls' = Append(calls, "POST EMAIL_URL")
    /\ pc' = "done"
    /\ UNCHANGED <<request, CLIENT_SECRET, pptx_buffer, bearer_token, idResp>>
    /\ UNCHANGED parseVars

Next == GeneratePptx \/ Authenticate \/ SendEmail

Spec == Init /\ [][Next]_vars

(***************************************************************************)
(* _parse_summary called on its own.                                       *)
(***************************************************************************)
Vocabulary ==
    { <<>>, <<"a">>, <<"1", ".">>, <<"1", ".", "1", ".">>, <<"-">>,
      <<"U+2022">> }

Separators == { <<" ">>, <<"\n">> }

\* the words ws joined by the separators ss: ws[1] ss[1] ws[2] ... ws[n]
RECURSIVE Join(_, _)
Join(ws, ss) ==
    IF Len(ws) <= 1 THEN (IF ws = <<>> THEN <<>> ELSE ws[1])
    ELSE ws[1] \o ss[1] \o Join(Tail(ws), Tail(ss))

InitParse ==
    /\ \/ summary = None
       \/ \E n \in 1..MaxWords :
             \E ws \in [1..n -> Vocabulary], ss \in [1..(n - 1) -> Separators] :
                summary = Join(ws, ss)
    /\ bullets = <<>>
    /\ parsed = FALSE
    /\ pc = "idle"
    /\ request = [business_name |-> "Acme", summary |-> <<>>, data |-> <<>>]
    /\ CLIENT_SECRET = "secret"
    /\ pptx_buffer = NoBuffer
    /\ bearer_token = ""
    /\ idResp = NotCalled
    /\ gwResp = NotCalled
    /\ calls = <<>>
    /\ response = NoResponse

ParseSummary ==
    /\ ~parsed
    /\ bullets' = parse_summary(summary)
    /\ parsed' = TRUE
    /\ UNCHANGED summary
    /\ UNCHANGED runVars

NextParse == ParseSummary

SpecParse == InitParse /\ [][NextParse]_vars


(***************************************************************************)
(* Properties of generate_and_send (checked under Spec).                   *)
(***************************************************************************)
\* a status in 200-299
Is2xx(status_code) == status_code >= 200 /\ status_code <= 299

Called(c) == \E i \in 1..Len(calls) : calls[i] = c

Count(c) == Cardinality({i \in 1..Len(calls) : calls[i] = c})

\* the identity endpoint answered, and not with a 2xx status and a body that
\* has an access_token
TokenAcquisitionFailed ==
    /\ idResp.kind = "response"
    /\ ~Is2xx(idResp.status_code) \/ idResp.body # "access_token"

\* C1: whenever the identity endpoint answers with a non-2xx status or with a
\* body that has no access_token, the run ends with the authentication
\* failure (401, "Authentication failed") and the email gateway is never
\* called in that run.
C1_AuthFailureEndsRun ==
    TokenAcquisitionFailed =>
        /\ pc = "done"
        /\ response.kind = "HTTPException"
        /\ response.status_code = AuthStatus
        /\ response.detail[1] = "Authentication failed: "
        /\ ~Called("POST EMAIL_URL")

\* C2: whenever the email gateway answers with a status outside 200-299 the
\* reply is not a success: it is a failure that carries the gateway's status
\* code and whose message contains the gateway's body.
C2_Non2xxIsDispatchError ==
    (gwResp.kind = "response" /\ ~Is2xx(gwResp.status_code)) =>
        /\ response.success = FALSE
        /\ response.kind = "HTTPException"
        /\ response.status_code = gwResp.status_code
        /\ \E i \in 1..Len(response.detail) : response.detail[i] = gwResp.body

\* C3: no dispatch failure (gateway status error or network error) reaches
\* the caller with the status code of an authentication failure.
C3_AuthStatusDistinct ==
    response.handler \in {"email_service", "email_sending"} =>
        response.status_code # AuthStatus

\* the order of the calls of one run
C4_Order ==
    /\ \A c \in {"create_pptx_buffer", "POST TOKEN_URL", "POST EMAIL_URL"} :
          Count(c) <= 1
    /\ \A i \in 1..Len(calls) :
          calls[i] = "POST TOKEN_URL" =>
              /\ pptx_buffer.built
              /\ \E j \in 1..(i - 1) : calls[j] = "create_pptx_buffer"
    /\ \A i \in 1..Len(calls) :
          calls[i] = "POST EMAIL_URL" =>
              /\ bearer_token # ""
              /\ \E j \in 1..(i - 1) : calls[j] = "POST TOKEN_URL"

\* C4: in every run the deck is built at most once, the identity endpoint is
\* called at most once and only after the deck was built, the gateway is
\* called at most once and only after a token was obtained, and no step is
\* taken once a step has failed (or the run has replied).
C4_LinearNoRetry == [](C4_Order) /\ [][response.kind = "none"]_vars

\* a run that failed at the last step, after all three calls
C4_Witness ==
    /\ pc = "done"
    /\ response.handler = "email_service"
    /\ calls = <<"create_pptx_buffer", "POST TOKEN_URL", "POST EMAIL_URL">>

(***************************************************************************)
(* Properties of create_pptx_buffer (checked under Spec).                  *)
(***************************************************************************)
SlideKinds(slides) == [i \in 1..Len(slides) |-> slides[i].kind]

\* every body cell of every table of the presentation
TableCells ==
    UNION { UNION { { pptx_buffer.slides[s].table.cells[r][c] :
                        c \in 1..Len(pptx_buffer.slides[s].table.cells[r]) } :
                    r \in 1..Len(pptx_buffer.slides[s].table.cells) } :
            s \in 1..Len(pptx_buffer.slides) }

\* C7: a presentation is title, summary, table, closing when data is
\* non-empty and title, summary, closing when it is empty, so that it has
\* exactly one slide more than the presentation built from the same business
\* name and summary with empty data.
C7_SlideOrder ==
    pptx_buffer.built =>
        /\ SlideKinds(pptx_buffer.slides) =
              IF request.data = <<>>
              THEN <<"title", "summary", "closing">>
              ELSE <<"title", "summary", "table", "closing">>
        /\ request.data # <<>> =>
              Len(pptx_buffer.slides) =
                 1 + Len(create_pptx_buffer(request.business_name,
                                            request.summary, <<>>).slides)

\* a presentation built from non-empty data
C7_Witness ==
    /\ pptx_buffer.built
    /\ request.data # <<>>
    /\ Len(pptx_buffer.slides) = 4

\* C8 as stated: a body cell is red exactly when the text written into it
\* starts with "-".
C8_RedIffTextStartsWithDash ==
    \A cell \in TableCells :
        cell.red <=> (cell.text # <<>> /\ cell.text[1] = "-")

\* C8 as amended: a body cell is red exactly when the first character of
\* its text that is not whitespace is "-".
C8_RedIffFirstVisibleIsDash ==
    \A cell \in TableCells :
        cell.red <=>
            \E i \in 1..Len(cell.text) :
                /\ cell.text[i] = "-"
                /\ \A j \in 1..(i - 1) : cell.text[j] \in Whitespace

\* a table with a red cell whose text starts with a space, and a cell with an
\* inner dash that is not red
C8_Witness ==
    /\ pptx_buffer.built
    /\ \E cell \in TableCells : cell.red /\ cell.text[1] = " "
    /\ \E cell \in TableCells :
          ~cell.red /\ \E i \in 2..Len(cell.text) : cell.text[i] = "-"

\* C9: the header cells of the table are the keys of row 0, in their order,
\* every row has one cell per header cell whatever keys it has itself, and
\* the cell of a key the row lacks is empty.
C9_HeaderIsRow0Keys ==
    (pptx_buffer.built /\ request.data # <<>>) =>
        LET table == pptx_buffer.slides[3].table
            row0 == request.data[1]
        IN  /\ Len(table.header) = Len(row0)
            /\ \A c \in 1..Len(row0) : table.header[c] = row0[c].key
            /\ Len(table.cells) = Len(request.data)
            /\ \A r \in 1..Len(request.data) :
                  /\ Len(table.cells[r]) = Len(row0)
                  /\ \A c \in 1..Len(row0) :
                        (\A i \in 1..Len(request.data[r]) :
                            request.data[r][i].key # row0[c].key)
                        => table.cells[r][c].text = <<>>

\* a table whose second row has a key row 0 lacks and lacks a key of row 0
C9_Witness ==
    /\ pptx_buffer.built
    /\ Len(request.data) = 2
    /\ DictKeys(request.data[1]) = <<"Market">>
    /\ DictKeys(request.data[2]) = <<"YTD">>

\* C10: a request whose data is non-empty and whose row 0 has no keys is
\* rejected as a generation failure, not as an unexpected error; no
\* presentation is produced and neither endpoint is called.
C10_ZeroColumnsRejected ==
    (request.data # <<>> /\ request.data[1] = <<>> /\ pc # "start") =>
        /\ pc = "done"
        /\ response.kind = "HTTPException"
        /\ response.handler # "unexpected"
        /\ ~pptx_buffer.built
        /\ ~Called("POST TOKEN_URL")
        /\ ~Called("POST EMAIL_URL")

\* C11: in the table the light alternate-row fill goes to a data row exactly
\* when its table row index (header 0, first data row 1) is even: the first
\* data row is unfilled, adjacent data rows differ, the cells of one row are
\* treated alike, and no header cell has the light fill.
C11_AlternateRows ==
    (pptx_buffer.built /\ request.data # <<>>) =>
        LET table == pptx_buffer.slides[3].table
            n == Len(table.cells)
        IN  /\ \A c \in 1..Len(table.header_fill) :
                  table.header_fill[c] # AlternateFill
            /\ \A r \in 1..n : \A c \in 1..Len(table.cells[r]) :
                  table.cells[r][c].filled <=> (r % 2 = 0)
            /\ \A c \in 1..Len(table.cells[1]) : ~table.cells[1][c].filled
            /\ \A r \in 1..(n - 1) : \A c \in 1..Len(table.cells[r]) :
                  table.cells[r][c].filled # table.cells[r + 1][c].filled
            /\ \A r \in 1..n : \A c, d \in 1..Len(table.cells[r]) :
                  table.cells[r][c].filled = table.cells[r][d].filled

\* a table of two data rows and two columns: an unfilled and a filled row
C11_Witness ==
    /\ pptx_buffer.built
    /\ Len(request.data) = 2
    /\ Len(pptx_buffer.slides[3].table.header) = 2
    /\ ~pptx_buffer.slides[3].table.cells[1][1].filled
    /\ pptx_buffer.slides[3].table.cells[2][2].filled

(***************************************************************************)
(* Properties of _parse_summary (checked under SpecParse).                 *)
(***************************************************************************)
\* C5: for every input the result is a non-empty list of non-empty bullets
\* without leading or trailing whitespace.
C5_BulletsNonEmptyTrimmed ==
    parsed =>
        /\ bullets # <<>>
        /\ \A i \in 1..Len(bullets) :
              /\ bullets[i] # <<>>
              /\ ~IsSpace(bullets[i][1])
              /\ ~IsSpace(bullets[i][Len(bullets[i])])

\* b occurs in text at position p
OccursAt(b, text, p) ==
    /\ p >= 1
    /\ p + Len(b) - 1 <= Len(text)
    /\ SubSeq(text, p, p + Len(b) - 1) = b

\* the bullets bs occur in text from position from on, one after the other
RECURSIVE InOrder(_, _, _)
InOrder(bs, text, from) ==
    IF bs = <<>> THEN TRUE
    ELSE \E p \in from..Len(text) :
            /\ OccursAt(Head(bs), text, p)
            /\ InOrder(Tail(bs), text, p + Len(Head(bs)))

\* C6: for a non-blank summary with numbered markers the bullets are pieces
\* of the text in their order of appearance, and no bullet begins with an
\* "<integer>. " marker.
C6_NumberedInOrderNoMarker ==
    (parsed /\ HasNumbered(CleanSummary(OrEmpty(summary)))) =>
        /\ InOrder(bullets, CleanSummary(OrEmpty(summary)), 1)
        /\ \A i \in 1..Len(bullets) : ~MarkerAt(bullets[i], 1)

\* the bullet glyphs "-" and U+2022
BulletGlyphs == {"-", "U+2022"}

\* a line without its leading bullet glyphs and its surrounding whitespace
WithoutLeadingGlyphs(line) ==
    Strip(Drop(line, LeadRun(line, BulletGlyphs \cup Whitespace) + 1))

\* one such bullet per line that is not blank, in order
RECURSIVE LinesWithoutLeadingGlyphs(_)
LinesWithoutLeadingGlyphs(lines) ==
    IF lines = <<>> THEN <<>>
    ELSE IF Strip(Head(lines)) = <<>>
         THEN LinesWithoutLeadingGlyphs(Tail(lines))
    ELSE <<WithoutLeadingGlyphs(Head(lines))>> \o
         LinesWithoutLeadingGlyphs(Tail(lines))

\* a non-blank summary without numbered marker that has a line break
IsLineSummary ==
    LET clean == CleanSummary(OrEmpty(summary))
    IN  /\ clean # <<>>
        /\ ~HasNumbered(clean)
        /\ \E i \in 1..Len(clean) : clean[i] = "\n"

\* C12: for a non-blank summary without numbered marker that has line breaks
\* the result is one bullet per non-empty line, in order, each the line
\* without its leading bullet glyphs ("-", U+2022) and its surrounding
\* whitespace; what ends the line, a trailing "-" included, is kept.
C12_LinesKeepTheirEnd ==
    (parsed /\ IsLineSummary) =>
        bullets = LinesWithoutLeadingGlyphs(
                      SplitOn(CleanSummary(OrEmpty(summary)), "\n", <<>>))

====
